---- MODULE Spec2Model ----
(***************************************************************************)
(* Model of the API result backend (v1/backends/api/api.go): the facade    *)
(* operations of Backend, each as one or two request/response exchanges    *)
(* with the remote state store, and the callers that invoke them           *)
(* concurrently.                                                           *)
(***************************************************************************)
EXTENDS Integers, Sequences, FiniteSets, TLC

\* ------------------------------------------------------------------ bounds
NumCallers == 2
MaxCalls == 2

Callers == 1..NumCallers

\* ------------------------------------------------- identifiers and inputs
stageTrigger == "stage_trigger"

TaskIds == {"t1", "t2"}
GroupIds == {"g1", "g2", "g3"}

\* The signatures the execution engine hands to the set-state operations: the
\* member tasks of group g1 and a stage trigger.
Signature(uuid, name, group) == [UUID |-> uuid, Name |-> name, GroupUUID |-> group]

MemberSeq == << Signature("t1", "add", "g1"), Signature("t2", "add", "g1") >>
Members == { MemberSeq[i] : i \in DOMAIN MemberSeq }
Signatures == { Signature("t1", "add", "g1"), Signature("t3", stageTrigger, "g1") }

NoSignature == Signature("", "", "")

ResultValues == { <<>>, <<42>> }
ErrorValues == { "boom" }
GroupTaskCounts == 0..1

\* Task states of the tasks package.
StatePending == "PENDING"
StateReceived == "RECEIVED"
StateStarted == "STARTED"
StateRetry == "RETRY"
StateSuccess == "SUCCESS"
StateFailure == "FAILURE"
NoState == "NONE"

\* ------------------------------------------------------------ error values
Nil == "nil"
ErrTransport == "transport error"
ErrUnexpected == "unexpected response from API"
ErrDecodeBody == "unable to decode response body"
ErrCreateTask == "could not create task with pending state"
ErrUpdateTask == "could not update task state"
ErrGetStates == "could not get task states for tasks"
ErrNoTaskIds == "cannot get task states without at least one task id"
ErrNilUnmarshal == "json: Unmarshal(nil *tasks.TaskState)"
ErrJSON == "json: invalid body"

\* ------------------------------------------------------------- the store
\* A task record of the store; State = NoState when the store holds none.
NoTask == [State |-> NoState, Error |-> "", Results |-> <<>>, TaskName |-> "", GroupUUID |-> ""]

NoGroup == [Exists |-> FALSE, TaskUUIDs |-> <<>>, ChordTriggered |-> FALSE]

InitGroups ==
    [g \in GroupIds |->
        CASE g = "g1" -> [Exists |-> TRUE, TaskUUIDs |-> <<"t1", "t2">>, ChordTriggered |-> FALSE]
          [] g = "g2" -> [Exists |-> TRUE, TaskUUIDs |-> <<>>, ChordTriggered |-> FALSE]
          [] OTHER -> NoGroup]

VARIABLES
    tasks,      \* store: task id -> task record
    groups,     \* store: group id -> group meta
    pc,         \* caller -> "idle" | "call" | "states"
    call,       \* caller -> the operation in progress and its arguments
    sent,       \* caller -> the requests (method and path) the call in progress has issued
    meta,       \* caller -> group meta decoded by getGroupMeta (a local of the call)
    ev,         \* the call that returned last: its arguments, requests, last response, result
    stage,      \* caller -> "free", or where a worker finishing a group task stands
    chord,      \* group -> counts of TriggerChord calls started / returned true / returned false
    ncalls,     \* number of facade calls made so far
    HTTPClient, \* the package's client: the base URL it sends to, or NilClient
    host,       \* caller -> host of the Backend it holds (NoHost before New)
    reached     \* caller -> host the last request of its Backend went to

vars == <<tasks, groups, pc, call, sent, meta, ev, stage, chord, ncalls,
          HTTPClient, host, reached>>

\* The client and the Backends.
client == <<HTTPClient, host, reached>>

\* The hosts a configuration may name as ResultBackend, the store's being the first.
StoreHost == "h1"
Hosts == {StoreHost, "h2"}
NoHost == ""
NilClient == "nil"

\* Every caller holds a Backend constructed by New for the store's host: the
\* first New created the client with that base URL (lines 33-38, 334-336).
Constructed ==
    /\ HTTPClient = StoreHost
    /\ host = [c \in Callers |-> StoreHost]
    /\ reached = [c \in Callers |-> NoHost]

\* ---------------------------------------------------- requests, responses
\* A request as the gentleman client sends it.
Request(method, path, id, ids, data) ==
    [method |-> method, path |-> path, id |-> id, ids |-> ids, data |-> data]

NoData == [status |-> "", hasError |-> FALSE, error |-> "", task_name |-> "", group |-> ""]

\* A response as the caller sees it. transport = FALSE: Do() returned an error.
\* body: "full" (the JSON the contract promises), "empty" (the JSON object {}),
\* "garbage" (not JSON).
Response(status, body, updated, states, uuids, triggered) ==
    [transport |-> TRUE, status |-> status, body |-> body, updated |-> updated,
     states |-> states, TaskUUIDs |-> uuids, ChordTriggered |-> triggered]

NoResponse ==
    [transport |-> FALSE, status |-> 0, body |-> "garbage", updated |-> FALSE,
     states |-> <<>>, TaskUUIDs |-> <<>>, ChordTriggered |-> FALSE]

StatusOnly(status) == Response(status, "garbage", FALSE, <<>>, <<>>, FALSE)

\* The task state the store serialises for task id t.
WireState(ts, t) ==
    [TaskUUID |-> t, TaskName |-> ts[t].TaskName, State |-> ts[t].State,
     Results |-> ts[t].Results, Error |-> ts[t].Error]

RECURSIVE WireStates(_, _)
WireStates(ts, ids) ==
    IF ids = <<>> THEN <<>>
    ELSE IF ts[Head(ids)].State = NoState THEN WireStates(ts, Tail(ids))
    ELSE <<WireState(ts, Head(ids))>> \o WireStates(ts, Tail(ids))

\* What the store does with a request when it follows the wire contract:
\* the new store contents and the response.
Handled(ts, gs, r) == [tasks |-> ts, groups |-> gs, resp |-> r]

StoreCreateTask(req) ==
    IF tasks[req.id].State # NoState
    THEN Handled(tasks, groups, StatusOnly(409))
    ELSE Handled([tasks EXCEPT ![req.id] =
                      [State |-> StatePending, Error |-> "", Results |-> <<>>,
                       TaskName |-> req.data.task_name, GroupUUID |-> req.data.group]],
                 groups, StatusOnly(201))

StoreUpdateTask(req) ==
    IF tasks[req.id].State = NoState
    THEN Handled(tasks, groups, StatusOnly(404))
    ELSE Handled([tasks EXCEPT ![req.id].State = req.data.status,
                               ![req.id].Error = IF req.data.hasError THEN req.data.error ELSE ""],
                 groups, StatusOnly(200))

StoreFetchTask(req) ==
    IF tasks[req.id].State = NoState
    THEN Handled(tasks, groups, StatusOnly(404))
    ELSE Handled(tasks, groups,
                 Response(200, "full", FALSE, <<WireState(tasks, req.id)>>, <<>>, FALSE))

StoreFetchTasks(req) ==
    Handled(tasks, groups,
            Response(200, "full", FALSE, WireStates(tasks, req.ids), <<>>, FALSE))

StoreFetchGroup(req) ==
    IF ~groups[req.id].Exists
    THEN Handled(tasks, groups, StatusOnly(404))
    ELSE Handled(tasks, groups,
                 Response(200, "full", FALSE, <<>>, groups[req.id].TaskUUIDs,
                          groups[req.id].ChordTriggered))

\* The atomic conditional update: flip the latch, report whether this request flipped it.
StoreChordTriggered(req) ==
    IF ~groups[req.id].Exists
    THEN Handled(tasks, groups, StatusOnly(404))
    ELSE Handled(tasks, [groups EXCEPT ![req.id].ChordTriggered = TRUE],
                 Response(200, "full", ~groups[req.id].ChordTriggered, <<>>, <<>>, FALSE))

StoreHandle(req) ==
    CASE req.path = "/api/v1/groups/:group_id/tasks/:task_id" -> StoreCreateTask(req)
      [] req.path = "/api/v1/tasks/:task_id" /\ req.method = "PATCH" -> StoreUpdateTask(req)
      [] req.path = "/api/v1/tasks/:task_id" /\ req.method = "POST" -> StoreFetchTask(req)
      [] req.path = "/api/v1/tasks" -> StoreFetchTasks(req)
      [] req.path = "/api/v1/groups/:group_id" -> StoreFetchGroup(req)
      [] req.path = "/api/v1/groups/:group_id/chord-triggered" -> StoreChordTriggered(req)

\* The ways one exchange can go. The answer to a create or an update has no
\* body the facade reads, so "empty" and "garbage" are ways a read and the
\* chord-trigger exchange can go.
\*   ok       the store follows the contract and the response arrives
\*   reject   the store refuses the request (a server error), changing nothing
\*   empty    the store handles the request and a 200 answer carries the body {}
\*   garbage  the store handles the request and a 200 answer carries no JSON
\*   reqlost  the transport fails before the request reaches the store
\*   resplost the store handles the request and the response is lost
Reliable == {"ok"}
Lossy == {"ok", "reqlost", "resplost"}
Anything == {"ok", "reject", "empty", "garbage", "reqlost", "resplost"}
BodyRead == {"empty", "garbage"}

OutcomeOf(req, o) ==
    LET h == StoreHandle(req) IN
    CASE o = "ok" -> h
      [] o = "reject" -> Handled(tasks, groups, StatusOnly(500))
      [] o = "empty" ->
            IF h.resp.status = 200
            THEN [h EXCEPT !.resp = Response(200, "empty", FALSE, <<>>, <<>>, FALSE)]
            ELSE h
      [] o = "garbage" ->
            IF h.resp.status = 200 THEN [h EXCEPT !.resp = StatusOnly(200)] ELSE h
      [] o = "reqlost" -> Handled(tasks, groups, NoResponse)
      [] o = "resplost" -> [h EXCEPT !.resp = NoResponse]

\* The store contents and the responses an exchange of req can end with.
Outcomes(req, env) == { OutcomeOf(req, o) : o \in env }

\* ------------------------------------------------- task states (tasks package)
TaskState(signature, state, results, err) ==
    [TaskUUID |-> signature.UUID, TaskName |-> signature.Name, State |-> state,
     Results |-> results, Error |-> err]

NoTaskState == [TaskUUID |-> "", TaskName |-> "", State |-> NoState, Results |-> <<>>, Error |-> ""]

NewReceivedTaskState(signature) == TaskState(signature, StateReceived, <<>>, "")
NewStartedTaskState(signature) == TaskState(signature, StateStarted, <<>>, "")
NewRetryTaskState(signature) == TaskState(signature, StateRetry, <<>>, "")
NewSuccessTaskState(signature, results) == TaskState(signature, StateSuccess, results, "")
NewFailureTaskState(signature, err) == TaskState(signature, StateFailure, <<>>, err)

IsCompleted(taskState) == taskState.State \in {StateSuccess, StateFailure}

\* ------------------------------------------------------ the facade: returns
\* What a facade operation returns: the boolean, the task states, the task
\* state (NoTaskState for a nil pointer) and the error (Nil for no error).
Return(val, states, state, err) == [val |-> val, states |-> states, state |-> state, err |-> err]

NoReturn == Return(FALSE, <<>>, NoTaskState, "pending")
ReturnNil == Return(FALSE, <<>>, NoTaskState, Nil)
ReturnErr(err) == Return(FALSE, <<>>, NoTaskState, err)

\* TriggerChord as it would be if it answered from a flag it held itself.
TriggerChordReturnAlwaysFalse(r) ==
    IF ~r.transport THEN ReturnErr(ErrTransport)
    ELSE IF r.status # 200 THEN ReturnErr(ErrUnexpected)
    ELSE IF r.body = "garbage" THEN ReturnErr(ErrDecodeBody)
    ELSE ReturnNil

\* TriggerChord as it would be if it took any decodable 200 answer for a flip.
TriggerChordReturnAnyAnswer(r) ==
    IF ~r.transport THEN ReturnErr(ErrTransport)
    ELSE IF r.status # 200 THEN ReturnErr(ErrUnexpected)
    ELSE IF r.body = "garbage" THEN ReturnErr(ErrDecodeBody)
    ELSE Return(TRUE, <<>>, NoTaskState, Nil)

\* TriggerChord as it would be if it took a refusal for "already triggered".
TriggerChordReturnRefusalIsFalse(r) ==
    IF ~r.transport THEN ReturnErr(ErrTransport)
    ELSE IF r.status # 200 THEN ReturnNil
    ELSE IF r.body = "garbage" THEN ReturnErr(ErrDecodeBody)
    ELSE Return(r.body = "full" /\ r.updated, <<>>, NoTaskState, Nil)

\* TriggerChord as it would be if it returned the negation of the store's answer.
TriggerChordReturnNegated(r) ==
    IF ~r.transport THEN ReturnErr(ErrTransport)
    ELSE IF r.status # 200 THEN ReturnErr(ErrUnexpected)
    ELSE IF r.body = "garbage" THEN ReturnErr(ErrDecodeBody)
    ELSE Return(~(r.body = "full" /\ r.updated), <<>>, NoTaskState, Nil)

\* TriggerChord, from the response on: lines 94-113.
TriggerChordReturn(r) ==
    IF ~r.transport THEN ReturnErr(ErrTransport)
    ELSE IF r.status # 200 THEN ReturnErr(ErrUnexpected)
    ELSE IF r.body = "garbage" THEN ReturnErr(ErrDecodeBody)
    ELSE Return(r.body = "full" /\ r.updated, <<>>, NoTaskState, Nil)

\* SetStatePending, from the response on: lines 130-142.
SetStatePendingReturn(r) ==
    IF ~r.transport THEN ReturnErr(ErrTransport)
    ELSE IF r.status # 201 THEN ReturnErr(ErrCreateTask)
    ELSE ReturnNil

\* updateState: the request body (lines 297-301) and the return (lines 310-322).
updateStateData(taskState) ==
    [status |-> taskState.State, hasError |-> taskState.Error # "",
     error |-> taskState.Error, task_name |-> "", group |-> ""]

\* updateState as it would be if it took every answer for an acknowledgement.
updateStateReturnAnyStatus(r) ==
    IF ~r.transport THEN ReturnErr(ErrTransport) ELSE ReturnNil

updateStateReturn(r) ==
    IF ~r.transport THEN ReturnErr(ErrTransport)
    ELSE IF r.status # 200 THEN ReturnErr(ErrUpdateTask)
    ELSE ReturnNil

\* GetState, from the response on: the decoder is handed a nil *tasks.TaskState,
\* so Decode fails on every body (lines 211-216).
GetStateReturn(r) ==
    IF ~r.transport THEN ReturnErr(ErrTransport)
    ELSE IF r.status # 200 THEN ReturnErr(ErrUnexpected)
    ELSE IF r.body = "garbage" THEN ReturnErr(ErrJSON)
    ELSE ReturnErr(ErrNilUnmarshal)

\* getGroupMeta, from the response on: the decoded group meta and the error.
getGroupMetaReturn(r) ==
    IF ~r.transport THEN [TaskUUIDs |-> <<>>, ChordTriggered |-> FALSE, err |-> ErrTransport]
    ELSE IF r.status # 200 THEN [TaskUUIDs |-> <<>>, ChordTriggered |-> FALSE, err |-> ErrUnexpected]
    ELSE IF r.body = "garbage" THEN [TaskUUIDs |-> <<>>, ChordTriggered |-> FALSE, err |-> ErrJSON]
    ELSE IF r.body = "empty" THEN [TaskUUIDs |-> <<>>, ChordTriggered |-> FALSE, err |-> Nil]
    ELSE [TaskUUIDs |-> r.TaskUUIDs, ChordTriggered |-> r.ChordTriggered, err |-> Nil]

NoMeta == [TaskUUIDs |-> <<>>, ChordTriggered |-> FALSE, err |-> Nil]

\* resp.JSON(&taskStates): each element decoded field by field.
RECURSIVE DecodeTaskStates(_)
DecodeTaskStates(ws) ==
    IF ws = <<>> THEN <<>>
    ELSE <<[TaskUUID |-> Head(ws).TaskUUID, TaskName |-> Head(ws).TaskName,
            State |-> Head(ws).State, Results |-> Head(ws).Results,
            Error |-> Head(ws).Error]>> \o DecodeTaskStates(Tail(ws))

\* getStates, from the response on: lines 276-292.
getStatesReturn(r) ==
    IF ~r.transport THEN ReturnErr(ErrTransport)
    ELSE IF r.status # 200 THEN ReturnErr(ErrGetStates)
    ELSE IF r.body # "full" THEN ReturnErr(ErrJSON)
    ELSE Return(FALSE, DecodeTaskStates(r.states), NoTaskState, Nil)

\* The loop of GroupCompleted as it would be if it counted every task state.
CountCompletedAnyState(taskStates) == Len(taskStates)

\* The loop of GroupCompleted: lines 60-65.
RECURSIVE CountCompleted(_)
CountCompleted(taskStates) ==
    IF taskStates = <<>> THEN 0
    ELSE (IF IsCompleted(Head(taskStates)) THEN 1 ELSE 0) + CountCompleted(Tail(taskStates))

\* GroupCompleted as it would be if it compared with <= instead of ==.
GroupCompletedReturnAtMost(states, groupTaskCount) ==
    IF states.err # Nil THEN ReturnErr(states.err)
    ELSE Return(CountCompleted(states.states) <= groupTaskCount, <<>>, NoTaskState, Nil)

\* GroupCompleted as it would be if it compared with >= instead of ==.
GroupCompletedReturnAtLeast(states, groupTaskCount) ==
    IF states.err # Nil THEN ReturnErr(states.err)
    ELSE Return(CountCompleted(states.states) >= groupTaskCount, <<>>, NoTaskState, Nil)

\* GroupCompleted's result once getStates returned: lines 56-67.
GroupCompletedReturn(states, groupTaskCount) ==
    IF states.err # Nil THEN ReturnErr(states.err)
    ELSE Return(CountCompleted(states.states) = groupTaskCount, <<>>, NoTaskState, Nil)

\* GroupTaskStates' result once getStates returned: line 77.
GroupTaskStatesReturn(states) == states

\* getStates as it would be without its argument check.
getStatesNoCheck(taskUUIDs) == Nil

\* getStates' argument check, before any request: lines 263-265.
getStatesCheck(taskUUIDs) == IF Len(taskUUIDs) = 0 THEN ErrNoTaskIds ELSE Nil

\* ---------------------------------------------------------------- the calls
\* A facade call: the operation, the arguments its code reads (InitGroup,
\* PurgeState and PurgeGroupMeta read none, GroupTaskStates does not read its
\* count), the task state it constructed, and (history only) whether the named
\* group's latch was set when it started.
Call(op, signature, id, groupTaskCount, taskState, latch) ==
    [op |-> op, signature |-> signature, id |-> id, groupTaskCount |-> groupTaskCount,
     taskState |-> taskState, latchAtStart |-> latch]

NoCall == Call("", NoSignature, "", 0, NoTaskState, FALSE)

\* A returned call, as an observer at the facade sees it.
Event(k, requests, r, result) == [call |-> k, sent |-> requests, resp |-> r, ret |-> result]

NoEvent == Event(NoCall, <<>>, NoResponse, NoReturn)

NoChord == [started |-> 0, true |-> 0, false |-> 0]

Init ==
    /\ tasks = [t \in TaskIds |-> NoTask]
    /\ groups = InitGroups
    /\ pc = [c \in Callers |-> "idle"]
    /\ call = [c \in Callers |-> NoCall]
    /\ sent = [c \in Callers |-> <<>>]
    /\ meta = [c \in Callers |-> NoMeta]
    /\ ev = NoEvent
    /\ stage = [c \in Callers |-> "free"]
    /\ chord = [g \in GroupIds |-> NoChord]
    /\ ncalls = 0
    /\ Constructed

\* Where a caller watching a group stands, by the count it asks with (0, 1,
\* 2): about to ask whether the group is complete, about to trigger the chord
\* after a true answer, about to ask again.
Watch == <<"watch0", "watch1", "watch2">>
Fire == <<"fire0", "fire1", "fire2">>
Again == <<"again0", "again1", "again2">>

Stages(seq) == { seq[i] : i \in DOMAIN seq }

WatchIndex(st) == CHOOSE i \in DOMAIN Watch : st \in {Watch[i], Fire[i], Again[i]}

WatchCount(st) == WatchIndex(st) - 1

\* What a worker finishing a group task does when a call returns result: after
\* marking its task it asks whether the group is complete, and triggers the
\* chord only if it is. A caller watching a group triggers the chord after a
\* true answer and asks again; a worker that retries or finishes a task of a
\* group being watched is done after its call. A free caller stays free.
After(st, result) ==
    CASE st = "mark" -> IF result.err = Nil THEN "check" ELSE "done"
      [] st = "check" -> IF result.err = Nil /\ result.val THEN "trigger" ELSE "done"
      [] st = "trigger" -> "done"
      [] st \in Stages(Watch) ->
            IF result.err = Nil /\ result.val THEN Fire[WatchIndex(st)] ELSE "done"
      [] st \in Stages(Fire) -> Again[WatchIndex(st)]
      [] st \in Stages(Again) -> "told"
      [] st = "retry" -> IF result.err = Nil THEN "retried" ELSE "done"
      [] st = "finish" -> IF result.err = Nil THEN "finished" ELSE "done"
      [] OTHER -> st

\* A free caller makes any call, while the budget of calls lasts.
Free(c) == stage[c] = "free" /\ ncalls < MaxCalls

\* Caller c enters an operation.
Begin(c) ==
    /\ pc[c] = "idle"
    /\ ncalls' = ncalls + 1
    /\ UNCHANGED client

\* The operation k goes on to its exchange with the store.
Proceed(c, k) ==
    /\ pc' = [pc EXCEPT ![c] = "call"]
    /\ call' = [call EXCEPT ![c] = k]
    /\ UNCHANGED <<sent, meta, ev, stage>>

\* The operation k returns result to caller c, r being the last response it
\* had (NoResponse when it made no exchange): its frame is gone.
Returns(c, k, requests, r, result) ==
    /\ pc' = [pc EXCEPT ![c] = "idle"]
    /\ call' = [call EXCEPT ![c] = NoCall]
    /\ sent' = [sent EXCEPT ![c] = <<>>]
    /\ meta' = [meta EXCEPT ![c] = NoMeta]
    /\ ev' = Event(k, requests, r, result)
    /\ stage' = [stage EXCEPT ![c] = After(@, result)]

\* The store after an exchange that ended with h.
Exchange(h) ==
    /\ tasks' = h.tasks
    /\ groups' = h.groups
    /\ UNCHANGED client

Sent(c, req) == Append(sent[c], <<req.method, req.path>>)

\* The entry of a set-state operation as it would be without the test of the
\* signature's name.
SetStateEntryNoCheck(c, op, signature, taskState) ==
    /\ Begin(c)
    /\ Proceed(c, Call(op, signature, signature.UUID, 0, taskState, FALSE))
    /\ UNCHANGED <<tasks, groups, chord>>

\* The entry of a set-state operation: the stage trigger is not recorded.
SetStateEntry(c, op, signature, taskState) ==
    /\ Begin(c)
    /\ IF signature.Name = stageTrigger
       THEN Returns(c, Call(op, signature, signature.UUID, 0, taskState, FALSE),
                    <<>>, NoResponse, ReturnNil)
       ELSE Proceed(c, Call(op, signature, signature.UUID, 0, taskState, FALSE))
    /\ UNCHANGED <<tasks, groups, chord>>

\* InitGroup reads neither of its arguments: lines 43-46.
InitGroup(c) ==
    /\ Free(c)
    /\ Begin(c)
    /\ Returns(c, Call("InitGroup", NoSignature, "", 0, NoTaskState, FALSE),
               <<>>, NoResponse, ReturnNil)
    /\ UNCHANGED <<tasks, groups, chord>>

\* PurgeState does not read its argument: lines 222-226.
PurgeState(c) ==
    /\ Free(c)
    /\ Begin(c)
    /\ Returns(c, Call("PurgeState", NoSignature, "", 0, NoTaskState, FALSE),
               <<>>, NoResponse, ReturnNil)
    /\ UNCHANGED <<tasks, groups, chord>>

\* PurgeGroupMeta does not read its argument: lines 229-233.
PurgeGroupMeta(c) ==
    /\ Free(c)
    /\ Begin(c)
    /\ Returns(c, Call("PurgeGroupMeta", NoSignature, "", 0, NoTaskState, FALSE),
               <<>>, NoResponse, ReturnNil)
    /\ UNCHANGED <<tasks, groups, chord>>

SetStatePending(c, sigs) ==
    \E signature \in sigs :
        Free(c) /\ SetStateEntry(c, "SetStatePending", signature, NoTaskState)

SetStateReceived(c, sigs) ==
    \E signature \in sigs :
        Free(c) /\ SetStateEntry(c, "SetStateReceived", signature, NewReceivedTaskState(signature))

SetStateStarted(c, sigs) ==
    \E signature \in sigs :
        Free(c) /\ SetStateEntry(c, "SetStateStarted", signature, NewStartedTaskState(signature))

SetStateRetry(c, sigs) ==
    \E signature \in sigs :
        Free(c) /\ SetStateEntry(c, "SetStateRetry", signature, NewRetryTaskState(signature))

SetStateSuccess(c, sigs) ==
    \E signature \in sigs, results \in ResultValues :
        Free(c) /\ SetStateEntry(c, "SetStateSuccess", signature, NewSuccessTaskState(signature, results))

SetStateFailure(c, sigs) ==
    \E signature \in sigs, err \in ErrorValues :
        Free(c) /\ SetStateEntry(c, "SetStateFailure", signature, NewFailureTaskState(signature, err))

GetState(c) ==
    \E t \in TaskIds :
        /\ Free(c)
        /\ Begin(c)
        /\ Proceed(c, Call("GetState", NoSignature, t, 0, NoTaskState, FALSE))
        /\ UNCHANGED <<tasks, groups, chord>>

GroupCompletedEntry(c, g, n) ==
    /\ Begin(c)
    /\ Proceed(c, Call("GroupCompleted", NoSignature, g, n, NoTaskState, FALSE))
    /\ UNCHANGED <<tasks, groups, chord>>

GroupCompleted(c, counts) ==
    \E g \in GroupIds, n \in counts : Free(c) /\ GroupCompletedEntry(c, g, n)

\* GroupTaskStates does not read groupTaskCount: lines 71-78.
GroupTaskStates(c) ==
    \E g \in GroupIds :
        /\ Free(c)
        /\ Begin(c)
        /\ Proceed(c, Call("GroupTaskStates", NoSignature, g, 0, NoTaskState, FALSE))
        /\ UNCHANGED <<tasks, groups, chord>>

TriggerChordEntry(c, g) ==
    /\ Begin(c)
    /\ Proceed(c, Call("TriggerChord", NoSignature, g, 0, NoTaskState, groups[g].ChordTriggered))
    /\ chord' = [chord EXCEPT ![g].started = @ + 1]
    /\ UNCHANGED <<tasks, groups>>

TriggerChord(c) == \E g \in GroupIds : Free(c) /\ TriggerChordEntry(c, g)

\* ------------------------------------------------------------ the exchanges
\* The request of SetStatePending: lines 122-129.
SetStatePendingRequest(k) ==
    Request("POST", "/api/v1/groups/:group_id/tasks/:task_id", k.signature.UUID, <<>>,
            [NoData EXCEPT !.task_name = k.signature.Name, !.group = k.signature.GroupUUID])

\* The request of updateState as it would be if it created the record.
updateStateRequestCreates(taskState) ==
    Request("POST", "/api/v1/groups/:group_id/tasks/:task_id", taskState.TaskUUID, <<>>,
            [NoData EXCEPT !.task_name = taskState.TaskName])

\* The request of updateState: lines 303-309.
updateStateRequest(taskState) ==
    Request("PATCH", "/api/v1/tasks/:task_id", taskState.TaskUUID, <<>>,
            updateStateData(taskState))

\* The request of GetState: lines 197-202.
GetStateRequest(taskUUID) ==
    Request("POST", "/api/v1/tasks/:task_id", taskUUID, <<>>, NoData)

\* The request of TriggerChord as it would be if it named a fixed group.
TriggerChordRequestOtherGroup(groupUUID) ==
    Request("PATCH", "/api/v1/groups/:group_id/chord-triggered", "g1", <<>>, NoData)

\* The request of TriggerChord: lines 85-93.
TriggerChordRequest(groupUUID) ==
    Request("PATCH", "/api/v1/groups/:group_id/chord-triggered", groupUUID, <<>>, NoData)

\* The request of getGroupMeta: lines 237-242.
getGroupMetaRequest(groupUUID) ==
    Request("GET", "/api/v1/groups/:group_id", groupUUID, <<>>, NoData)

\* The request of getStates: lines 267-275.
getStatesRequest(taskUUIDs) ==
    Request("GET", "/api/v1/tasks", "", taskUUIDs, NoData)

\* SetStatePending's request and return: lines 122-142.
SetStatePendingDo(c, env) ==
    /\ pc[c] = "call" /\ call[c].op = "SetStatePending"
    /\ \E h \in Outcomes(SetStatePendingRequest(call[c]), env \ BodyRead) :
        LET r == h.resp
        IN  /\ Exchange(h)
            /\ Returns(c, call[c], Sent(c, SetStatePendingRequest(call[c])), r, SetStatePendingReturn(r))
    /\ UNCHANGED <<chord, ncalls>>

\* updateState as it would be if it sent its request again after a transport
\* failure.
updateStateRetrying(c, env) ==
    /\ pc[c] = "call"
    /\ call[c].op \in {"SetStateReceived", "SetStateStarted", "SetStateRetry",
                       "SetStateSuccess", "SetStateFailure"}
    /\ \E h \in Outcomes(updateStateRequest(call[c].taskState), env \ BodyRead) :
        LET r == h.resp
        IN  /\ Exchange(h)
            /\ IF ~r.transport /\ sent[c] = <<>>
               THEN /\ sent' = [sent EXCEPT ![c] = Sent(c, updateStateRequest(call[c].taskState))]
                    /\ UNCHANGED <<pc, call, meta, ev, stage>>
               ELSE Returns(c, call[c], Sent(c, updateStateRequest(call[c].taskState)), r,
                            updateStateReturn(r))
    /\ UNCHANGED <<chord, ncalls>>

\* updateState: lines 296-323.
updateState(c, env) ==
    /\ pc[c] = "call"
    /\ call[c].op \in {"SetStateReceived", "SetStateStarted", "SetStateRetry",
                       "SetStateSuccess", "SetStateFailure"}
    /\ \E h \in Outcomes(updateStateRequest(call[c].taskState), env \ BodyRead) :
        LET r == h.resp
        IN  /\ Exchange(h)
            /\ Returns(c, call[c], Sent(c, updateStateRequest(call[c].taskState)), r, updateStateReturn(r))
    /\ UNCHANGED <<chord, ncalls>>

\* GetState's request and return: lines 197-218.
GetStateDo(c, env) ==
    /\ pc[c] = "call" /\ call[c].op = "GetState"
    /\ \E h \in Outcomes(GetStateRequest(call[c].id), env) :
        LET r == h.resp
        IN  /\ Exchange(h)
            /\ Returns(c, call[c], Sent(c, GetStateRequest(call[c].id)), r, GetStateReturn(r))
    /\ UNCHANGED <<chord, ncalls>>

\* The history of TriggerChord results of group g, after one more result.
ChordCounted(g, result) ==
    [chord EXCEPT ![g] =
        IF result.err # Nil THEN @
        ELSE IF result.val THEN [@ EXCEPT !.true = @ + 1]
        ELSE [@ EXCEPT !.false = @ + 1]]

\* TriggerChord's request and return: lines 85-113.
TriggerChordDo(c, env) ==
    /\ pc[c] = "call" /\ call[c].op = "TriggerChord"
    /\ \E h \in Outcomes(TriggerChordRequest(call[c].id), env) :
        LET r == h.resp
        IN  /\ Exchange(h)
            /\ Returns(c, call[c], Sent(c, TriggerChordRequest(call[c].id)), r, TriggerChordReturn(r))
            /\ chord' = ChordCounted(call[c].id, TriggerChordReturn(r))
    /\ UNCHANGED ncalls

\* getGroupMeta, called by GroupCompleted and GroupTaskStates (lines 50-53, 72-75),
\* and getStates' argument check on the group's task ids (lines 263-265).
getGroupMeta(c, env) ==
    /\ pc[c] = "call" /\ call[c].op \in {"GroupCompleted", "GroupTaskStates"}
    /\ \E h \in Outcomes(getGroupMetaRequest(call[c].id), env) :
        LET r == h.resp
            groupMeta == getGroupMetaReturn(r)
        IN  /\ Exchange(h)
            /\ IF groupMeta.err # Nil
               THEN Returns(c, call[c], Sent(c, getGroupMetaRequest(call[c].id)), r, ReturnErr(groupMeta.err))
               ELSE IF getStatesCheck(groupMeta.TaskUUIDs) # Nil
               THEN Returns(c, call[c], Sent(c, getGroupMetaRequest(call[c].id)), r,
                            ReturnErr(getStatesCheck(groupMeta.TaskUUIDs)))
               ELSE /\ pc' = [pc EXCEPT ![c] = "states"]
                    /\ meta' = [meta EXCEPT ![c] = groupMeta]
                    /\ sent' = [sent EXCEPT ![c] = Sent(c, getGroupMetaRequest(call[c].id))]
                    /\ UNCHANGED <<call, ev, stage>>
    /\ UNCHANGED <<chord, ncalls>>

\* getStates' request (lines 267-292) and what its caller returns.
getStates(c, env) ==
    /\ pc[c] = "states"
    /\ \E h \in Outcomes(getStatesRequest(meta[c].TaskUUIDs), env) :
        LET r == h.resp
        IN  /\ Exchange(h)
            /\ Returns(c, call[c], Sent(c, getStatesRequest(meta[c].TaskUUIDs)), r,
                       IF call[c].op = "GroupCompleted"
                       THEN GroupCompletedReturn(getStatesReturn(r), call[c].groupTaskCount)
                       ELSE GroupTaskStatesReturn(getStatesReturn(r)))
    /\ UNCHANGED <<chord, ncalls>>

Calls(c) ==
    \/ InitGroup(c) \/ PurgeState(c) \/ PurgeGroupMeta(c)
    \/ SetStatePending(c, Signatures) \/ SetStateReceived(c, Signatures)
    \/ SetStateStarted(c, Signatures) \/ SetStateRetry(c, Signatures)
    \/ SetStateSuccess(c, Signatures) \/ SetStateFailure(c, Signatures)
    \/ GetState(c) \/ GroupCompleted(c, GroupTaskCounts) \/ GroupTaskStates(c)
    \/ TriggerChord(c)

Exchanges(c, env) ==
    \/ SetStatePendingDo(c, env) \/ updateState(c, env) \/ GetStateDo(c, env)
    \/ TriggerChordDo(c, env) \/ getGroupMeta(c, env) \/ getStates(c, env)

\* Any callers, any operations, a store and a transport that may fail.
Next == \E c \in Callers : Calls(c) \/ Exchanges(c, Anything)

Spec == Init /\ [][Next]_vars

\* The same callers against an accepting, atomic store over a reliable transport.
NextAtomic == \E c \in Callers : Calls(c) \/ Exchanges(c, Reliable)

AtomicSpec == Init /\ [][NextAtomic]_vars

\* The same callers against that store over a transport that may lose the
\* request or the response.
NextLossy == \E c \in Callers : Calls(c) \/ Exchanges(c, Lossy)

LossySpec == Init /\ [][NextLossy]_vars

\* ---------------------------------------------- workers finishing a group
\* The task worker c executes: the members of g1 in turn.
WorkerSig(c) == MemberSeq[((c - 1) % Len(MemberSeq)) + 1]

\* The record of a member task a worker has started.
StartedTask(signature) ==
    [State |-> StateStarted, Error |-> "", Results |-> <<>>,
     TaskName |-> signature.Name, GroupUUID |-> signature.GroupUUID]

\* Every member task of g1 is created and started, and a worker is about to
\* finish each.
InitChord ==
    /\ tasks = [t \in TaskIds |->
                   IF \E m \in Members : m.UUID = t
                   THEN StartedTask(CHOOSE m \in Members : m.UUID = t)
                   ELSE NoTask]
    /\ groups = InitGroups
    /\ pc = [c \in Callers |-> "idle"]
    /\ call = [c \in Callers |-> NoCall]
    /\ sent = [c \in Callers |-> <<>>]
    /\ meta = [c \in Callers |-> NoMeta]
    /\ ev = NoEvent
    /\ stage = [c \in Callers |-> "mark"]
    /\ chord = [g \in GroupIds |-> NoChord]
    /\ ncalls = 0
    /\ Constructed

\* The worker marks its task SUCCESS or FAILURE.
WorkerSucceeded(c) ==
    \E results \in ResultValues :
        /\ stage[c] = "mark"
        /\ SetStateEntry(c, "SetStateSuccess", WorkerSig(c),
                         NewSuccessTaskState(WorkerSig(c), results))

WorkerFailed(c) ==
    \E err \in ErrorValues :
        /\ stage[c] = "mark"
        /\ SetStateEntry(c, "SetStateFailure", WorkerSig(c),
                         NewFailureTaskState(WorkerSig(c), err))

\* Then it asks whether the group is complete, with the group's task count.
WorkerChecks(c) ==
    /\ stage[c] = "check"
    /\ GroupCompletedEntry(c, WorkerSig(c).GroupUUID, Len(MemberSeq))

\* It triggers the chord only if GroupCompleted returned true.
WorkerTriggers(c) ==
    /\ stage[c] = "trigger"
    /\ TriggerChordEntry(c, WorkerSig(c).GroupUUID)

Worker(c) ==
    \/ WorkerSucceeded(c) \/ WorkerFailed(c) \/ WorkerChecks(c) \/ WorkerTriggers(c)
    \/ updateState(c, Reliable) \/ getGroupMeta(c, Reliable) \/ getStates(c, Reliable)
    \/ TriggerChordDo(c, Reliable)

NextChord == \E c \in Callers : Worker(c)

\* Workers against an accepting, atomic store, each scheduled fairly.
ChordSpec ==
    InitChord /\ [][NextChord]_vars /\ \A c \in Callers : WF_vars(Worker(c))

\* ------------------------------------------ a store holding member tasks
\* The record the store holds of a member task in state st, after the
\* set-state calls that lead there.
StoredTask(signature, st) ==
    [State |-> st, Error |-> IF st = StateFailure THEN "boom" ELSE "", Results |-> <<>>,
     TaskName |-> signature.Name, GroupUUID |-> signature.GroupUUID]

TaskStates ==
    {StatePending, StateReceived, StateStarted, StateRetry, StateSuccess, StateFailure}

\* The member tasks of g1 are in any states, or not yet created.
InitStatus ==
    /\ tasks \in [TaskIds -> {NoTask} \cup
                               { StoredTask(m, st) : m \in Members, st \in TaskStates }]
    /\ groups = InitGroups
    /\ pc = [c \in Callers |-> "idle"]
    /\ call = [c \in Callers |-> NoCall]
    /\ sent = [c \in Callers |-> <<>>]
    /\ meta = [c \in Callers |-> NoMeta]
    /\ ev = NoEvent
    /\ stage = [c \in Callers |-> "free"]
    /\ chord = [g \in GroupIds |-> NoChord]
    /\ ncalls = 0
    /\ Constructed

MemberCounts == 0..Len(MemberSeq)

\* No other caller is inside an operation.
Quiet(c) == \A d \in Callers \ {c} : pc[d] = "idle"

\* Callers, one at a time, asking for the states of the group or finishing
\* and retrying its member tasks.
NextStatus ==
    \E c \in Callers :
        \/ Quiet(c) /\ GroupCompleted(c, MemberCounts)
        \/ Quiet(c) /\ GroupTaskStates(c)
        \/ Quiet(c) /\ SetStateSuccess(c, Members)
        \/ Quiet(c) /\ SetStateRetry(c, Members)
        \/ updateState(c, Anything) \/ getGroupMeta(c, Anything) \/ getStates(c, Anything)

StatusSpec == InitStatus /\ [][NextStatus]_vars

\* ------------------------------------------------------------- the claims
\* TriggerChord calls of group g that have not returned.
InFlight(g) ==
    Cardinality({ c \in Callers : pc[c] = "call" /\ call[c].op = "TriggerChord" /\ call[c].id = g })

\* Caller c's call of operation op returns in this step.
ReturnsIn(c, op) == pc[c] # "idle" /\ call[c].op = op /\ pc'[c] = "idle"

TriggerChordPath == <<"PATCH", "/api/v1/groups/:group_id/chord-triggered">>
GroupPath == <<"GET", "/api/v1/groups/:group_id">>
TasksPath == <<"GET", "/api/v1/tasks">>

\* The last response is a 200 answer whose body is the JSON the contract promises.
Answered(e) == e.resp.transport /\ e.resp.status = 200 /\ e.resp.body = "full"

\* C1: against an accepting, atomic store, of the TriggerChord calls made for a
\* group of the store no two return true, and once every call made has
\* returned (at least one was made) exactly one has returned (true, nil) and
\* every other one (false, nil).
C1_ExactlyOneTrue ==
    \A g \in GroupIds :
        groups[g].Exists =>
            /\ chord[g].true <= 1
            /\ (chord[g].started >= 1 /\ InFlight(g) = 0) =>
                   /\ chord[g].true = 1
                   /\ chord[g].false = chord[g].started - 1

\* Two overlapping calls have returned: the one that returned last started
\* before the latch was set and returned (false, nil), the other returned true.
C1_Witness ==
    /\ ev.call.op = "TriggerChord" /\ ev.call.id = "g1" /\ ~ev.call.latchAtStart
    /\ ev.ret = ReturnNil
    /\ chord["g1"] = [started |-> 2, true |-> 1, false |-> 1]

\* A member task of g1 is in a terminal state.
Terminal(t) == tasks[t].State \in {StateSuccess, StateFailure}

\* C2: when workers finish the member tasks of a group, each marking its task
\* SUCCESS or FAILURE, then calling GroupCompleted and TriggerChord only if it
\* returned true, at most one TriggerChord call returns true, every member is
\* terminal when one has, and one eventually does.
C2_ChordFiresOnce ==
    /\ [](chord["g1"].true <= 1)
    /\ [](chord["g1"].true = 1 => \A m \in Members : Terminal(m.UUID))
    /\ <>(chord["g1"].true = 1)

\* The chord has fired, and a worker that also found the group complete got false.
C2_Witness ==
    /\ chord["g1"] = [started |-> 2, true |-> 1, false |-> 1]
    /\ \A c \in Callers : stage[c] = "done"
    /\ \A m \in Members : Terminal(m.UUID)

\* C3: the latch of a group never goes from true back to false, and a
\* TriggerChord call that started after the latch was set returns false, and
\* (false, nil) when the store answered it as the contract promises, and leaves
\* the store as it was.
C3_OneWayLatch ==
    [][ /\ \A g \in GroupIds : groups[g].ChordTriggered => groups'[g].ChordTriggered
        /\ \A c \in Callers :
              (ReturnsIn(c, "TriggerChord") /\ call[c].latchAtStart) =>
                  /\ ~ev'.ret.val
                  /\ Answered(ev') => ev'.ret = ReturnNil
                  /\ tasks' = tasks /\ groups' = groups ]_vars

\* A call that started with the latch set has returned (false, nil).
C3_Witness ==
    /\ ev.call.op = "TriggerChord" /\ ev.call.latchAtStart
    /\ ev.ret = ReturnNil /\ Answered(ev)
    /\ groups[ev.call.id].ChordTriggered
    /\ chord[ev.call.id].true = 1

\* C4: once a TriggerChord call for a group, an original one or the retry of
\* one that ended in an error, has returned without error and no call for the
\* group is in flight, exactly one call for the group has returned true.
C4_RetryFindsTheTrue ==
    \A g \in GroupIds :
        (/\ ev.call.op = "TriggerChord" /\ ev.call.id = g /\ ev.ret.err = Nil
         /\ InFlight(g) = 0)
        => chord[g].true = 1

\* C5: a TriggerChord call whose exchange failed in the transport or was
\* answered with a status other than 200 returns a non-nil error; (false, nil)
\* is returned only for an exchange completed with status 200.
C5_FailureIsAnError ==
    ev.call.op = "TriggerChord" =>
        /\ (~ev.resp.transport \/ ev.resp.status # 200) => ev.ret.err # Nil
        /\ ev.ret = ReturnNil => (ev.resp.transport /\ ev.resp.status = 200)
        /\ ev.sent = <<TriggerChordPath>>

\* A TriggerChord call the store refused has returned an error.
C5_Witness ==
    /\ ev.call.op = "TriggerChord"
    /\ ev.resp.transport /\ ev.resp.status = 500
    /\ ev.ret = ReturnErr(ErrUnexpected)

\* C6: TriggerChord returns (false, nil) only for a 200 answer that carries
\* updated = false.
C6_FalseOnlyWhenReported ==
    (ev.call.op = "TriggerChord" /\ ev.ret = ReturnNil) =>
        (Answered(ev) /\ ~ev.resp.updated)

\* The number of tasks of group g the store holds in a terminal state.
TerminalCount(g) ==
    Cardinality({ i \in DOMAIN groups[g].TaskUUIDs : Terminal(groups[g].TaskUUIDs[i]) })

\* C7 as stated: for every group the store holds, a GroupCompleted call whose
\* exchanges the store answered returns true if and only if the number of
\* member tasks in SUCCESS or FAILURE equals the count it was given.
C7_TrueIffCountEquals ==
    [][ \A c \in Callers :
          (ReturnsIn(c, "GroupCompleted") /\ groups[call[c].id].Exists /\ Answered(ev')) =>
              (ev'.ret = Return(TRUE, <<>>, NoTaskState, Nil)
                  <=> TerminalCount(call[c].id) = call[c].groupTaskCount) ]_vars

\* C7 amended: for every group the store holds with at least one task id, a
\* GroupCompleted call whose exchanges the store answered returns, without
\* error, true if and only if the number of member tasks in SUCCESS or FAILURE
\* equals the count it was given; for a group with no task ids it returns an
\* error whatever the count.
C7_TrueIffCountEqualsNonEmpty ==
    [][ \A c \in Callers :
          (ReturnsIn(c, "GroupCompleted") /\ groups[call[c].id].Exists /\ Answered(ev')) =>
              IF groups[call[c].id].TaskUUIDs = <<>>
              THEN ev'.ret.err # Nil /\ ~ev'.ret.val
              ELSE /\ ev'.ret.err = Nil
                   /\ ev'.ret.val <=> TerminalCount(call[c].id) = call[c].groupTaskCount ]_vars

\* GroupCompleted(g1, 2) has returned true with one member in SUCCESS and the
\* other in FAILURE.
C7_Witness ==
    /\ ev.call.op = "GroupCompleted" /\ ev.call.id = "g1" /\ ev.call.groupTaskCount = 2
    /\ ev.ret = Return(TRUE, <<>>, NoTaskState, Nil)
    /\ tasks["t1"].State = StateSuccess /\ tasks["t2"].State = StateFailure

\* C8: a GetState call made for a task the store holds, and answered with the
\* task's state, returns that state without error.
C8_GetStateReturnsTheState ==
    (ev.call.op = "GetState" /\ Answered(ev)) =>
        /\ ev.ret.err = Nil
        /\ ev.ret.state = ev.resp.states[1]

\* C9: when a GroupTaskStates call on a group returns the states the store
\* answered with, right after a SetStateSuccess(signature, results) call on a
\* member task of the group returned nil, the states it returns hold one of
\* that task with status SUCCESS and Results equal to the results passed.
C9_ResultsRoundTrip ==
    [][ \A c \in Callers :
          ( /\ ReturnsIn(c, "GroupTaskStates") /\ Answered(ev')
            /\ ev.call.op = "SetStateSuccess" /\ ev.ret.err = Nil
            /\ \E i \in DOMAIN groups[call[c].id].TaskUUIDs :
                   groups[call[c].id].TaskUUIDs[i] = ev.call.id ) =>
              \E i \in DOMAIN ev'.ret.states :
                  /\ ev'.ret.states[i].TaskUUID = ev.call.id
                  /\ ev'.ret.states[i].State = StateSuccess
                  /\ ev'.ret.states[i].Results = ev.call.taskState.Results ]_vars

\* C10: getStates issues its request only for a non-empty list of task ids;
\* GroupCompleted and GroupTaskStates on a group the store holds with no task
\* ids, once the group fetch is answered, return the error of the empty list
\* (no boolean true, no list) having issued the group fetch alone.
C10_EmptyListIsAnError ==
    /\ \A c \in Callers : pc[c] = "states" => Len(meta[c].TaskUUIDs) > 0
    /\ (/\ ev.call.op \in {"GroupCompleted", "GroupTaskStates"}
        /\ groups[ev.call.id].Exists /\ groups[ev.call.id].TaskUUIDs = <<>>
        /\ Answered(ev))
       => /\ ev.ret = ReturnErr(ErrNoTaskIds)
          /\ ev.sent = <<GroupPath>>

\* GroupCompleted with count 0 on the empty group has returned the error.
C10_Witness ==
    /\ ev.call.op = "GroupCompleted" /\ ev.call.id = "g2" /\ ev.call.groupTaskCount = 0
    /\ Answered(ev) /\ ev.resp.TaskUUIDs = <<>>
    /\ ev.ret = ReturnErr(ErrNoTaskIds)
    /\ ev.sent = <<GroupPath>>

\* C11: a GroupCompleted or GroupTaskStates call whose group fetch the store
\* answered with status 404 returns an error other than the one it returns
\* for any other status that is not 200.
C11_NotFoundIsDistinct ==
    ( /\ ev.call.op \in {"GroupCompleted", "GroupTaskStates"}
      /\ ev.sent = <<GroupPath>>
      /\ ev.resp.transport /\ ev.resp.status = 404 )
    => ev.ret.err # ErrUnexpected

SetStateOps ==
    {"SetStatePending", "SetStateReceived", "SetStateStarted", "SetStateRetry",
     "SetStateSuccess", "SetStateFailure"}

GroupOps == {"GroupCompleted", "GroupTaskStates"}

CreatePath == <<"POST", "/api/v1/groups/:group_id/tasks/:task_id">>
UpdatePath == <<"PATCH", "/api/v1/tasks/:task_id">>
GetStatePath == <<"POST", "/api/v1/tasks/:task_id">>

\* The set-state call of event e issued the one request of its transition and
\* the store answered it with the success status: 201 for the create, 200 for
\* an update.
Acknowledged(e) ==
    /\ e.resp.transport
    /\ IF e.call.op = "SetStatePending"
       THEN e.sent = <<CreatePath>> /\ e.resp.status = 201
       ELSE e.sent = <<UpdatePath>> /\ e.resp.status = 200

\* A bulk fetch in progress follows a group fetch the store answered: it asks
\* for the task ids the store holds for the group.
BulkFetchFollowsGroup ==
    \A c \in Callers :
        pc[c] = "states" =>
            /\ groups[call[c].id].Exists
            /\ meta[c].TaskUUIDs = groups[call[c].id].TaskUUIDs
            /\ sent[c] = <<GroupPath>>

\* The reads return a nil error only after exchanges answered with 200, and
\* every exchange that failed in the transport or was answered with another
\* status ends the call with an error.
ReadsAcknowledged ==
    /\ (ev.call.op \in GroupOps /\ ev.ret.err = Nil) =>
           /\ ev.sent = <<GroupPath, TasksPath>>
           /\ ev.resp.transport /\ ev.resp.status = 200
    /\ (ev.call.op = "GetState" /\ ev.ret.err = Nil) =>
           /\ ev.sent = <<GetStatePath>>
           /\ ev.resp.transport /\ ev.resp.status = 200
    /\ BulkFetchFollowsGroup
    /\ (ev.call.op \in SetStateOps \cup GroupOps \cup {"GetState"} /\ ev.sent # <<>>
            /\ (~ev.resp.transport \/ ev.resp.status \notin {200, 201})) =>
           ev.ret.err # Nil

\* C12 as stated: a set-state operation returns nil only if it sent the request
\* of its transition and the store answered with the success status, and the
\* reads return a nil error only if every exchange was answered with 200.
C12_SuccessOnlyIfAcknowledged ==
    /\ (ev.call.op \in SetStateOps /\ ev.ret.err = Nil) => Acknowledged(ev)
    /\ ReadsAcknowledged

\* C12 amended: a set-state operation for a signature whose name is not the
\* stage trigger returns nil only if it sent the request of its transition and
\* the store answered with the success status (for the stage trigger it
\* returns nil having sent nothing); the reads return a nil error only if
\* every exchange was answered with 200, and a failed exchange ends in an error.
C12_SuccessOnlyIfAcknowledgedOrStageTrigger ==
    /\ (ev.call.op \in SetStateOps /\ ev.ret.err = Nil) =>
           IF ev.call.signature.Name = stageTrigger
           THEN ev.sent = <<>>
           ELSE Acknowledged(ev)
    /\ ReadsAcknowledged

\* SetStateSuccess for a member task has returned nil on the store's 200.
C12_Witness ==
    /\ ev.call.op = "SetStateSuccess" /\ ev.call.signature.Name # stageTrigger
    /\ ev.ret = ReturnNil
    /\ Acknowledged(ev)
    /\ tasks[ev.call.id].State = StateSuccess

\* The state a set-state operation moves its task to.
StateOf(op) ==
    CASE op = "SetStatePending" -> StatePending
      [] op = "SetStateReceived" -> StateReceived
      [] op = "SetStateStarted" -> StateStarted
      [] op = "SetStateRetry" -> StateRetry
      [] op = "SetStateSuccess" -> StateSuccess
      [] op = "SetStateFailure" -> StateFailure

\* C13: when a set-state call returns that repeats the call that returned
\* last, that one having ended in a transport error after the store applied
\* its request, and the store's answer arrives this time, the call returns nil
\* and leaves the store as the first invocation left it.
C13_RetryReturnsNil ==
    [][ \A c \in Callers :
          ( /\ pc[c] # "idle" /\ pc'[c] = "idle" /\ call[c].op \in SetStateOps
            /\ ev.call = call[c]
            /\ ev.ret = ReturnErr(ErrTransport)
            /\ tasks[call[c].id].State = StateOf(call[c].op)
            /\ ev'.resp.transport ) =>
              /\ ev'.ret = ReturnNil
              /\ tasks' = tasks ]_vars

\* The task ids the store holds a record of.
Recorded(ts) == { t \in TaskIds : ts[t].State # NoState }

\* C14: the store holds one record per task id at most, and none disappears;
\* a record comes into being only in the exchange of a SetStatePending call
\* for that task, which issues the create request; the other set-state
\* operations issue the update request alone and leave the set of records as
\* it is.
C14_OneRecordPerTask ==
    [][ /\ Recorded(tasks) \subseteq Recorded(tasks')
        /\ \A t \in Recorded(tasks') \ Recorded(tasks) :
              \E c \in Callers :
                  /\ ReturnsIn(c, "SetStatePending") /\ call[c].id = t
                  /\ ev'.sent = <<CreatePath>>
        /\ \A c \in Callers :
              (pc[c] # "idle" /\ pc'[c] = "idle"
                  /\ call[c].op \in SetStateOps \ {"SetStatePending"}) =>
                  /\ ev'.sent = <<UpdatePath>>
                  /\ Recorded(tasks') = Recorded(tasks) ]_vars

\* SetStateReceived has updated the record SetStatePending created.
C14_Witness ==
    /\ ev.call.op = "SetStateReceived" /\ ev.ret = ReturnNil
    /\ ev.sent = <<UpdatePath>>
    /\ tasks[ev.call.id].State = StateReceived
    /\ Recorded(tasks) = {ev.call.id}

\* C15: a call of a set-state operation, of GetState or of TriggerChord issues
\* one request at most; a call of GroupCompleted or GroupTaskStates issues one
\* group fetch and then one bulk fetch at most, the bulk fetch only after the
\* store answered the group fetch; whatever the answers or failures are.
C15_NoRetry ==
    /\ ev.call.op \in SetStateOps => ev.sent \in {<<>>, <<CreatePath>>, <<UpdatePath>>}
    /\ ev.call.op = "GetState" => ev.sent = <<GetStatePath>>
    /\ ev.call.op = "TriggerChord" => ev.sent = <<TriggerChordPath>>
    /\ ev.call.op \in GroupOps => ev.sent \in {<<GroupPath>>, <<GroupPath, TasksPath>>}
    /\ \A c \in Callers :
          /\ pc[c] = "call" => sent[c] = <<>>
          /\ pc[c] = "states" =>
                /\ sent[c] = <<GroupPath>>
                /\ meta[c].err = Nil /\ groups[call[c].id].Exists

\* GroupCompleted has returned the transport error of its bulk fetch, having
\* issued the group fetch and the bulk fetch once each.
C15_Witness ==
    /\ ev.call.op = "GroupCompleted"
    /\ ev.sent = <<GroupPath, TasksPath>>
    /\ ~ev.resp.transport
    /\ ev.ret = ReturnErr(ErrTransport)

\* ------------------------------------------------- constructing Backends
\* No Backend is constructed yet and the package's client is nil.
InitNew ==
    /\ tasks = [t \in TaskIds |-> NoTask]
    /\ groups = InitGroups
    /\ pc = [c \in Callers |-> "idle"]
    /\ call = [c \in Callers |-> NoCall]
    /\ sent = [c \in Callers |-> <<>>]
    /\ meta = [c \in Callers |-> NoMeta]
    /\ ev = NoEvent
    /\ stage = [c \in Callers |-> "free"]
    /\ chord = [g \in GroupIds |-> NoChord]
    /\ ncalls = 0
    /\ HTTPClient = NilClient
    /\ host = [c \in Callers |-> NoHost]
    /\ reached = [c \in Callers |-> NoHost]

\* What New and the requests of a Backend leave alone.
store == <<tasks, groups, call, sent, meta, ev, stage, chord, ncalls>>

\* New, up to the call of initClient: lines 33-38.
New(c) ==
    /\ pc[c] = "idle"
    /\ \E h \in Hosts : host' = [host EXCEPT ![c] = h]
    /\ reached' = [reached EXCEPT ![c] = NoHost]
    /\ pc' = [pc EXCEPT ![c] = "initClient"]
    /\ UNCHANGED <<HTTPClient, store>>

\* initClient's test of the package variable: line 334.
initClientCheck(c) ==
    /\ pc[c] = "initClient"
    /\ pc' = [pc EXCEPT ![c] = IF HTTPClient = NilClient THEN "assign" ELSE "idle"]
    /\ UNCHANGED <<client, store>>

\* initClient's assignment to the package variable: line 335.
initClientAssign(c) ==
    /\ pc[c] = "assign"
    /\ HTTPClient' = host[c]
    /\ pc' = [pc EXCEPT ![c] = "idle"]
    /\ UNCHANGED <<host, reached, store>>

\* A method of the Backend caller c holds sends its request through the
\* package's client, to the client's base URL: HTTPClient.Request()...Do().
Do(c) ==
    /\ pc[c] = "idle" /\ host[c] # NoHost
    /\ reached' = [reached EXCEPT ![c] = HTTPClient]
    /\ UNCHANGED <<HTTPClient, host, pc, store>>

NextNew == \E c \in Callers : New(c) \/ initClientCheck(c) \/ initClientAssign(c) \/ Do(c)

\* Callers constructing Backends, for any hosts and concurrently, and using them.
ClientSpec == InitNew /\ [][NextNew]_vars

\* C16: the request of a Backend goes to the host the Backend was constructed
\* with.
C16_OwnHost ==
    \A c \in Callers : reached[c] # NoHost => reached[c] = host[c]

\* C17: a TriggerChord call issues the conditional update and nothing before
\* or after it, and when the store answers it with status 200 and a body that
\* carries the updated field, the boolean it returns is that field.
C17_ReturnsTheReportedFlip ==
    /\ \A c \in Callers :
          (pc[c] = "call" /\ call[c].op = "TriggerChord") => sent[c] = <<>>
    /\ ev.call.op = "TriggerChord" =>
          /\ ev.sent = <<TriggerChordPath>>
          /\ Answered(ev) => ev.ret = Return(ev.resp.updated, <<>>, NoTaskState, Nil)

\* A TriggerChord call that started with the latch unset has returned false:
\* another caller flipped the latch in between and the store reported it.
C17_Witness ==
    /\ ev.call.op = "TriggerChord" /\ ~ev.call.latchAtStart
    /\ Answered(ev) /\ ~ev.resp.updated
    /\ ev.ret = ReturnNil
    /\ ev.sent = <<TriggerChordPath>>

\* C18: a set-state operation called with a signature named "stage_trigger"
\* returns nil at once: no request of it is ever in preparation, it has sent
\* nothing, and its step leaves the tasks and the groups of the store as they
\* were.
C18_StageTriggerSendsNothing ==
    [][ /\ \A c \in Callers :
              (pc'[c] # "idle" /\ call'[c].op \in SetStateOps) =>
                  call'[c].signature.Name # stageTrigger
        /\ (ev'.call.op \in SetStateOps /\ ev'.call.signature.Name = stageTrigger) =>
              /\ ev'.ret = ReturnNil
              /\ ev'.sent = <<>>
              /\ (ncalls' # ncalls => (tasks' = tasks /\ groups' = groups)) ]_vars

\* SetStateFailure for the stage trigger has returned nil and the store holds
\* no record.
C18_Witness ==
    /\ ev.call.op = "SetStateFailure" /\ ev.call.signature.Name = stageTrigger
    /\ ev.ret = ReturnNil /\ ev.sent = <<>>
    /\ Recorded(tasks) = {}
    /\ ncalls = MaxCalls

\* Caller c's call makes an exchange with the store in this step.
Moves(c) == pc[c] # "idle" /\ pc'[c] # pc[c]

Watcher == 1

\* The member tasks of g1 are in any states; the watcher is about to ask
\* whether the group is complete, with any count; every other caller is a
\* worker that will retry a finished member task or finish a running one.
InitRetry ==
    /\ tasks \in [TaskIds -> {NoTask} \cup
                               { StoredTask(m, st) : m \in Members, st \in TaskStates }]
    /\ groups = InitGroups
    /\ pc = [c \in Callers |-> "idle"]
    /\ call = [c \in Callers |-> NoCall]
    /\ sent = [c \in Callers |-> <<>>]
    /\ meta = [c \in Callers |-> NoMeta]
    /\ ev = NoEvent
    /\ stage \in { st \in [Callers -> Stages(Watch) \cup {"retry", "finish"}] :
                      \A c \in Callers : st[c] \in Stages(Watch) <=> c = Watcher }
    /\ chord = [g \in GroupIds |-> NoChord]
    /\ ncalls = 0
    /\ Constructed

\* The watcher asks whether the group is complete, with its count.
WatcherChecks(c) ==
    /\ stage[c] \in Stages(Watch) \cup Stages(Again)
    /\ GroupCompletedEntry(c, "g1", WatchCount(stage[c]))

\* After a true answer it triggers the chord.
WatcherTriggers(c) ==
    /\ stage[c] \in Stages(Fire)
    /\ TriggerChordEntry(c, "g1")

\* GroupCompleted has returned true to the watcher.
Seen == stage[Watcher] \in Stages(Fire) \cup Stages(Again)

\* From then on a worker retries its task, a finished one.
WorkerRetries(c) ==
    /\ stage[c] = "retry" /\ Seen
    /\ Terminal(WorkerSig(c).UUID)
    /\ SetStateEntry(c, "SetStateRetry", WorkerSig(c), NewRetryTaskState(WorkerSig(c)))

\* Or it finishes its task, one not yet finished.
WorkerFinishes(c) ==
    /\ stage[c] = "finish" /\ Seen
    /\ ~Terminal(WorkerSig(c).UUID)
    /\ \/ SetStateEntry(c, "SetStateSuccess", WorkerSig(c),
                        NewSuccessTaskState(WorkerSig(c), <<>>))
       \/ \E err \in ErrorValues :
            SetStateEntry(c, "SetStateFailure", WorkerSig(c),
                          NewFailureTaskState(WorkerSig(c), err))

NextRetry ==
    \E c \in Callers :
        \/ WatcherChecks(c) \/ WatcherTriggers(c) \/ WorkerRetries(c) \/ WorkerFinishes(c)
        \/ updateState(c, Reliable) \/ TriggerChordDo(c, Reliable)
        \/ getGroupMeta(c, Reliable) \/ getStates(c, Reliable)

\* A group watched while its member tasks are retried and finished, against
\* an accepting store.
RetrySpec == InitRetry /\ [][NextRetry]_vars

\* The watcher's second GroupCompleted call has just returned.
Told == stage[Watcher] = "told" /\ ev.call.op = "GroupCompleted"

\* The workers whose retry, or whose finishing, of a member task the store
\* has accepted since GroupCompleted returned true.
Retried == { c \in Callers : stage[c] = "retried" }
Finished == { c \in Callers : stage[c] = "finished" }

====
